---------------------------- MODULE Spec2Model ----------------------------
(***************************************************************************)
(* A model of the house-jobs batch scripts: parser4.py, parser3.py and     *)
(* newparser.py.  Each script loads a score table, walks the documents of  *)
(* an input directory, cuts every document into listing chunks, asks a     *)
(* language-model endpoint to turn each chunk into JSON, picks the job      *)
(* objects out of the answer, attaches the scores and writes the records.  *)
(*                                                                         *)
(* Text is a sequence of one-character strings.  A JSON value is a record  *)
(* [t |-> tag, v |-> payload]; a dict keeps its entries as a sequence of   *)
(* [k |-> key, v |-> value] in insertion order, as a Python dict does.     *)
(***************************************************************************)
EXTENDS Integers, Sequences, FiniteSets, TLC

VARIABLES
    script,          \* the script that runs: "parser3", "parser4" or "newparser"
    excel,           \* the score spreadsheet on disk
    input_dir,       \* the documents of the input directory, in listing order
    endpoint,        \* the answers the endpoint may give in this run
    pc,              \* position of the running script
    scores_map,      \* main: scores_map (newparser: scores_data)
    processed_files, \* parser3 main: the documents that already have an output
    fi,              \* main: index of the document in the for loop
    ci,              \* main: index of the chunk in the for loop
    attempt,         \* parser4.process_chunk: the loop variable
    text_string,     \* main: the text of the document being processed
    chunks,          \* main: the chunks (newparser: job_listings) of the document
    all_jobs,        \* main: all_jobs (newparser: all_final_data)
    jobs,            \* main: the value the last process_chunk call returned
    data,            \* process_chunk: the parsed answer of the last attempt
    job_data_list,   \* process_chunk: find_job_objects(data)
    outputs,         \* the output directory: one JSON file per document
    csv_file,        \* newparser: enriched_job_listings.csv
    trail,           \* history: what each attempt of the last process_chunk call came to
    called,          \* history: the last step made an extraction call
    reads,           \* history: the documents read so far
    attempted        \* history: the <<document, chunk>> pairs sent to the endpoint

vars == <<script, excel, input_dir, endpoint, pc, scores_map, processed_files,
          fi, ci, attempt, text_string, chunks, all_jobs, jobs, data,
          job_data_list, outputs, csv_file, trail, called, reads, attempted>>

-----------------------------------------------------------------------------
(* Bounds of the model.                                                    *)

MaxPieces == 4      \* a document text is made of at most this many pieces
MaxDepth == 2       \* containers nested around the leaves of an answer
MaxFiles == 2       \* documents in the input directory

-----------------------------------------------------------------------------
(* Sequences.                                                              *)

RECURSIVE Flatten(_)
Flatten(ss) == IF ss = <<>> THEN <<>> ELSE Head(ss) \o Flatten(Tail(ss))

SeqsUpTo(S, n) == UNION {[1..m -> S] : m \in 0..n}

-----------------------------------------------------------------------------
(* JSON values, as json.loads returns them.                                *)

JNull == [t |-> "null", v |-> 0]
JStr(s) == [t |-> "str", v |-> s]
JInt(n) == [t |-> "int", v |-> n]
JFloat(n) == [t |-> "float", v |-> n]
JList(items) == [t |-> "list", v |-> items]
JDict(entries) == [t |-> "dict", v |-> entries]
KV(key, value) == [k |-> key, v |-> value]

IsDict(x) == x.t = "dict"
IsList(x) == x.t = "list"

\* key in d
HasKey(d, key) == \E i \in 1..Len(d.v) : d.v[i].k = key

\* d.get(key), None when the key is absent
DictGet(d, key) ==
    IF HasKey(d, key)
    THEN d.v[CHOOSE i \in 1..Len(d.v) : d.v[i].k = key].v
    ELSE JNull

\* d[key] = value: in place when the key exists, appended otherwise
DictSet(d, key, value) ==
    IF HasKey(d, key)
    THEN JDict([i \in 1..Len(d.v) |->
                    IF d.v[i].k = key THEN KV(key, value) ELSE d.v[i]])
    ELSE JDict(Append(d.v, KV(key, value)))

\* the values of a dict, or the items of a list, in iteration order
Children(x) ==
    IF IsDict(x) THEN [i \in 1..Len(x.v) |-> x.v[i].v]
    ELSE IF IsList(x) THEN x.v
    ELSE <<>>

-----------------------------------------------------------------------------
(* parser4.find_job_objects                                                *)

ID_FIELD == "Post_ID"

RECURSIVE find_job_objects(_)
RECURSIVE find_job_objects_all(_)

\* found_jobs.extend(find_job_objects(item)) for every item, in order
find_job_objects_all(items) ==
    IF items = <<>> THEN <<>>
    ELSE find_job_objects(Head(items)) \o find_job_objects_all(Tail(items))

\* A variant that keeps searching below a dictionary that already matched.
find_job_objects_descend(x) ==
    IF IsDict(x)
    THEN (IF HasKey(x, ID_FIELD) THEN <<x>> ELSE <<>>)
             \o find_job_objects_all(Children(x))
    ELSE IF IsList(x) THEN find_job_objects_all(Children(x))
    ELSE <<>>

find_job_objects(x) ==
    IF IsDict(x)
    THEN IF HasKey(x, ID_FIELD) THEN <<x>>
         ELSE find_job_objects_all(Children(x))
    ELSE IF IsList(x) THEN find_job_objects_all(Children(x))
    ELSE <<>>

-----------------------------------------------------------------------------
(* split_into_job_chunks (parser3 and parser4 hold the same function)      *)

Delim == <<"M", "E", "M", "-">>
Whitespace == {" ", "\n"}

\* the lookahead (?=MEM-) matches at position i
IsDelimAt(text, i) ==
    /\ i >= 1
    /\ i + Len(Delim) - 1 <= Len(text)
    /\ SubSeq(text, i, i + Len(Delim) - 1) = Delim

\* re.split(r'(?=MEM-)', text): the text from start on, cut before every
\* match at or after i
RECURSIVE re_split(_, _, _)
re_split(text, start, i) ==
    IF i > Len(text) THEN <<SubSeq(text, start, Len(text))>>
    ELSE IF IsDelimAt(text, i)
         THEN <<SubSeq(text, start, i - 1)>> \o re_split(text, i, i + 1)
         ELSE re_split(text, start, i + 1)

RECURSIVE lstrip(_)
lstrip(s) ==
    IF s # <<>> /\ Head(s) \in Whitespace THEN lstrip(Tail(s)) ELSE s

RECURSIVE rstrip(_)
rstrip(s) ==
    IF s # <<>> /\ s[Len(s)] \in Whitespace
    THEN rstrip(SubSeq(s, 1, Len(s) - 1)) ELSE s

\* str.strip()
strip(s) == rstrip(lstrip(s))

\* [chunk.strip() for chunk in pieces if chunk.strip()]
RECURSIVE strip_nonempty(_)
strip_nonempty(pieces) ==
    IF pieces = <<>> THEN <<>>
    ELSE (IF strip(Head(pieces)) # <<>> THEN <<strip(Head(pieces))>> ELSE <<>>)
             \o strip_nonempty(Tail(pieces))

\* A variant that keeps chunks[0], the text before the first "MEM-".
split_keep_front(text) == strip_nonempty(re_split(text, 1, 1))

\* A variant that trims the chunks on the left only.
RECURSIVE lstrip_nonempty(_)
lstrip_nonempty(pieces) ==
    IF pieces = <<>> THEN <<>>
    ELSE (IF strip(Head(pieces)) # <<>> THEN <<lstrip(Head(pieces))>> ELSE <<>>)
             \o lstrip_nonempty(Tail(pieces))

split_lstrip_only(text) == lstrip_nonempty(Tail(re_split(text, 1, 1)))

split_into_job_chunks(text) == strip_nonempty(Tail(re_split(text, 1, 1)))

-----------------------------------------------------------------------------
(* Strings as the scripts handle them.                                     *)

UpperCase == <<"A", "B", "C", "D", "E", "F", "G", "H", "I", "J", "K", "L", "M",
               "N", "O", "P", "Q", "R", "S", "T", "U", "V", "W", "X", "Y", "Z">>
LowerCase == <<"a", "b", "c", "d", "e", "f", "g", "h", "i", "j", "k", "l", "m",
               "n", "o", "p", "q", "r", "s", "t", "u", "v", "w", "x", "y", "z">>
Digits == <<"0", "1", "2", "3", "4", "5", "6", "7", "8", "9">>

IsDigit(c) == \E i \in 1..Len(Digits) : Digits[i] = c
DigitValue(c) == (CHOOSE i \in 1..Len(Digits) : Digits[i] = c) - 1

LowerChar(c) ==
    IF \E i \in 1..Len(UpperCase) : UpperCase[i] = c
    THEN LowerCase[CHOOSE i \in 1..Len(UpperCase) : UpperCase[i] = c]
    ELSE c

\* str.lower()
lower(s) == [i \in 1..Len(s) |-> LowerChar(s[i])]

\* str(n) for n >= 0
RECURSIVE IntToStr(_)
IntToStr(n) ==
    IF n < 10 THEN <<Digits[n + 1]>>
    ELSE IntToStr(n \div 10) \o <<Digits[(n % 10) + 1]>>

\* int(s) for a string of digits
RECURSIVE StrToInt(_)
StrToInt(s) ==
    IF Len(s) = 1 THEN DigitValue(s[1])
    ELSE 10 * StrToInt(SubSeq(s, 1, Len(s) - 1)) + DigitValue(s[Len(s)])

IsDigits(s) == s # <<>> /\ \A i \in 1..Len(s) : IsDigit(s[i])

\* s.split(sep)[0]
BeforeFirst(s, sep) ==
    IF \E i \in 1..Len(s) : s[i] = sep
    THEN SubSeq(s, 1, (CHOOSE i \in 1..Len(s) :
                          s[i] = sep /\ \A j \in 1..(i - 1) : s[j] # sep) - 1)
    ELSE s

\* everything after the first sep (the empty string when there is none)
AfterFirst(s, sep) ==
    IF \E i \in 1..Len(s) : s[i] = sep
    THEN SubSeq(s, (CHOOSE i \in 1..Len(s) :
                       s[i] = sep /\ \A j \in 1..(i - 1) : s[j] # sep) + 1, Len(s))
    ELSE <<>>

\* the pattern matches case-insensitively at the start of s
StartsWithCI(s, p) == Len(s) >= Len(p) /\ lower(SubSeq(s, 1, Len(p))) = lower(p)

-----------------------------------------------------------------------------
(* The score spreadsheet.  A cell is a number, a string or NaN (an empty    *)
(* cell); a row is a function from the column names of the sheet to cells. *)

STATE_COL == "Two-letter state code"
DISTRICT_COL == "Congressional district number"
NOMINATE_COL == "First-dimension DW-NOMINATE score"
LES_COL == "LES 1.0"
CONGRESS_COL == "Congress number"
MEMBER_NAME_COL == "Legislator name, as given in THOMAS"

NaN == [t |-> "nan", v |-> 0]
Num(n) == [t |-> "num", v |-> n]
Txt(s) == [t |-> "str", v |-> s]

\* a scores map: None (newparser only) or a dict from key to the two scores
NoScores == [none |-> TRUE, map |-> <<>>]
ScoresDict(m) == [none |-> FALSE, map |-> m]
EmptyMap == ScoresDict(<<>>)
ScoreEntry(nominate, les) == [dw_nominate |-> nominate, les |-> les]

\* not scores_map
IsFalsy(scores) == scores.none \/ DOMAIN scores.map = {}

\* df[CONGRESS_COL].max()
latest_congress(rows) ==
    CHOOSE n \in {rows[i][CONGRESS_COL].v : i \in 1..Len(rows)} :
        \A i \in 1..Len(rows) : rows[i][CONGRESS_COL].v <= n

\* A variant that keeps the rows of every session.
df_all(rows) == rows

\* df[df[CONGRESS_COL] == latest_congress]
df_latest(rows) ==
    IF rows = <<>> THEN <<>>
    ELSE SelectSeq(rows, LAMBDA r : r[CONGRESS_COL].v = latest_congress(rows))

\* The body of the for loop raises on this row: a column the row does not
\* have (KeyError), or int() of an empty district cell (ValueError).
RowRaises(row) ==
    \/ {STATE_COL, DISTRICT_COL, NOMINATE_COL, LES_COL} \ DOMAIN row # {}
    \/ row[DISTRICT_COL].t # "num"

\* f"{row[STATE_COL]}-{int(row[DISTRICT_COL])}"
district_key(row) == row[STATE_COL].v \o <<"-">> \o IntToStr(row[DISTRICT_COL].v)

\* the for loop over df_latest.iterrows(), up to the first row that raises
RECURSIVE build_district_map(_, _)
build_district_map(rows, m) ==
    IF rows = <<>> \/ RowRaises(Head(rows)) THEN m
    ELSE build_district_map(
             Tail(rows),
             (district_key(Head(rows)) :>
                  ScoreEntry(Head(rows)[NOMINATE_COL].v, Head(rows)[LES_COL].v)) @@ m)

\* the sheet cannot be read, or the session column is missing
LoadRaises(sheet) ==
    \/ ~sheet.loadable
    \/ CONGRESS_COL \notin sheet.columns

\* parser3.load_scores_from_excel: every exception returns {}
load_scores_from_excel_p3(sheet) ==
    IF LoadRaises(sheet) THEN EmptyMap
    ELSE IF \E i \in 1..Len(df_latest(sheet.rows)) : RowRaises(df_latest(sheet.rows)[i])
         THEN EmptyMap
         ELSE ScoresDict(build_district_map(df_latest(sheet.rows), <<>>))

\* parser4.load_scores_from_excel: an exception returns the map built so far
load_scores_from_excel_p4(sheet) ==
    IF LoadRaises(sheet) THEN EmptyMap
    ELSE ScoresDict(build_district_map(df_latest(sheet.rows), <<>>))

\* "Last, First" to "first last", lower case
standard_name(name_raw) ==
    lower(strip(BeforeFirst(AfterFirst(name_raw, ","), ",")))
        \o <<" ">> \o lower(strip(BeforeFirst(name_raw, ",")))

\* the for loop of newparser.load_scores; rows whose name is no string
\* are passed over
RECURSIVE build_name_map(_, _)
build_name_map(rows, m) ==
    IF rows = <<>> THEN m
    ELSE build_name_map(
             Tail(rows),
             IF Head(rows)[MEMBER_NAME_COL].t = "str"
             THEN (standard_name(Head(rows)[MEMBER_NAME_COL].v) :>
                      ScoreEntry(Head(rows)[NOMINATE_COL].v,
                                 Head(rows)[LES_COL].v)) @@ m
             ELSE m)

\* newparser.load_scores: None when the sheet cannot be read or lacks a
\* required column
load_scores(sheet) ==
    IF ~sheet.loadable THEN NoScores
    ELSE IF {MEMBER_NAME_COL, NOMINATE_COL, LES_COL} \ sheet.columns # {}
         THEN NoScores
         ELSE ScoresDict(build_name_map(sheet.rows, <<>>))

\* newparser.standardize_author_name; x is a JSON value
Honorifics == << <<"C", "o", "n", "g", "r", "e", "s", "s", "w", "o", "m", "a", "n">>,
                 <<"C", "o", "n", "g", "r", "e", "s", "s", "m", "a", "n">>,
                 <<"R", "e", "p", ".">>,
                 <<"R", "e", "p", "r", "e", "s", "e", "n", "t", "a", "t", "i", "v", "e">> >>

\* re.sub(r'^(Congresswoman|Congressman|Rep\.|Representative)\s*', '', s)
strip_honorific(s) ==
    IF \E i \in 1..Len(Honorifics) : StartsWithCI(s, Honorifics[i])
    THEN lstrip(SubSeq(s,
             Len(Honorifics[CHOOSE i \in 1..Len(Honorifics) :
                   /\ StartsWithCI(s, Honorifics[i])
                   /\ \A j \in 1..(i - 1) : ~StartsWithCI(s, Honorifics[j])]) + 1,
             Len(s)))
    ELSE s

standardize_author_name(x) ==
    IF x.t # "str" THEN <<>>
    ELSE lower(strip(BeforeFirst(strip_honorific(x.v), "(")))

-----------------------------------------------------------------------------
(* parser4.Job: the pydantic model, validated in pydantic's default (lax)  *)
(* mode.  A float is held in hundredths.                                   *)

Field(name, type, required) == [name |-> name, type |-> type, required |-> required]

JobFields ==
    << Field("Post_ID", "str", TRUE),
       Field("Posting_Author", "str", FALSE),
       Field("Congress_Number", "int", FALSE),
       Field("State_District", "str", FALSE),
       Field("Location", "str", FALSE),
       Field("Job_Function", "str", FALSE),
       Field("Title_Parsed", "str", FALSE),
       Field("Office_Type", "str", FALSE),
       Field("Responsibilities", "list_str", FALSE),
       Field("Qualifications", "list_str", FALSE),
       Field("Salary_Min", "int", FALSE),
       Field("Salary_Max", "int", FALSE),
       Field("Skills_Mentioned", "list_str", FALSE),
       Field("Equal_Opportunity_Information", "str", FALSE),
       Field("Cleaned_Text", "str", TRUE),
       Field("DW_NOMINATE", "float", FALSE),
       Field("LES", "float", FALSE) >>

\* the value satisfies the declared type, after the conversions lax mode makes
FieldOk(type, x) ==
    CASE type = "str" -> x.t = "str"
      [] type = "int" -> \/ x.t = "int"
                         \/ x.t = "float" /\ x.v % 100 = 0
                         \/ x.t = "str" /\ IsDigits(x.v)
      [] type = "float" -> \/ x.t \in {"int", "float"}
                           \/ x.t = "str" /\ IsDigits(x.v)
      [] type = "list_str" -> /\ x.t = "list"
                              /\ \A i \in 1..Len(x.v) : x.v[i].t = "str"

\* the value as the model holds it
Coerce(type, x) ==
    CASE type = "int" /\ x.t = "float" -> JInt(x.v \div 100)
      [] type = "int" /\ x.t = "str" -> JInt(StrToInt(x.v))
      [] type = "float" /\ x.t = "int" -> JFloat(100 * x.v)
      [] type = "float" /\ x.t = "str" -> JFloat(100 * StrToInt(x.v))
      [] OTHER -> x

\* the field is given: the key is there and its value is not null
Given(item, name) == HasKey(item, name) /\ DictGet(item, name).t # "null"

\* A variant that lets a required field be left out or null.
FieldValid_lenient(item, f) ==
    Given(item, f.name) => FieldOk(f.type, DictGet(item, f.name))

FieldValid(item, f) ==
    IF Given(item, f.name) THEN FieldOk(f.type, DictGet(item, f.name))
    ELSE ~f.required

\* Job.model_validate(item) does not raise ValidationError
IsValidJob(item) == \A i \in 1..Len(JobFields) : FieldValid(item, JobFields[i])

\* the Job that Job.model_validate(item) returns, as model_dump() shows it:
\* every declared field, None where the field is not given, no other key
Job(item) ==
    JDict([i \in 1..Len(JobFields) |->
              KV(JobFields[i].name,
                 IF Given(item, JobFields[i].name)
                 THEN Coerce(JobFields[i].type, DictGet(item, JobFields[i].name))
                 ELSE JNull)])

\* bool(x) of a JSON value
Truthy(x) ==
    CASE x.t = "null" -> FALSE
      [] x.t \in {"int", "float"} -> x.v # 0
      [] OTHER -> x.v # <<>>

\* hash(x) raises TypeError
Unhashable(x) == x.t \in {"list", "dict"}

\* key in scores_map, for a hashable key
InScores(x, scores) == x.t = "str" /\ x.v \in DOMAIN scores.map

-----------------------------------------------------------------------------
(* Enrichment.                                                             *)

\* parser4, lines 111-114: the scores are set on a hit, nothing is done on a miss
enrich_p4(job, scores) ==
    IF /\ Truthy(DictGet(job, "State_District"))
       /\ InScores(DictGet(job, "State_District"), scores)
    THEN DictSet(
             DictSet(job, "DW_NOMINATE",
                 JFloat(scores.map[DictGet(job, "State_District").v].dw_nominate)),
             "LES", JFloat(scores.map[DictGet(job, "State_District").v].les))
    ELSE job

\* parser3, lines 106-112, and newparser, lines 133-138: both scores on a
\* hit, both None otherwise
set_scores(job, hit, key, scores) ==
    IF hit
    THEN DictSet(DictSet(job, "DW-NOMINATE", JFloat(scores.map[key].dw_nominate)),
                 "LES", JFloat(scores.map[key].les))
    ELSE DictSet(DictSet(job, "DW-NOMINATE", JNull), "LES", JNull)

enrich_p3(job, scores) ==
    set_scores(job,
               /\ Truthy(DictGet(job, "State_District"))
               /\ InScores(DictGet(job, "State_District"), scores),
               DictGet(job, "State_District").v, scores)

enrich_np(parsed_data, scores) ==
    set_scores(parsed_data,
               /\ ~IsFalsy(scores)
               /\ standardize_author_name(DictGet(parsed_data, "Posting_Author"))
                      \in DOMAIN scores.map,
               standardize_author_name(DictGet(parsed_data, "Posting_Author")),
               scores)

-----------------------------------------------------------------------------
(* One attempt of parser4.process_chunk, lines 93-126.  The outcome of the *)
(* call is "transport" (the request raised, any exception that is no       *)
(* ValueError), "malformed" (json.loads raised) or "answer" with the parsed *)
(* answer; see Outcomes.                                                   *)

\* what the attempt comes to
attempt_kind(outcome) ==
    IF outcome.kind # "answer" THEN outcome.kind
    ELSE IF find_job_objects(outcome.answer) = <<>> THEN "norecords"
    ELSE IF \E i \in 1..Len(find_job_objects(outcome.answer)) :
                 ~IsValidJob(find_job_objects(outcome.answer)[i])
         THEN "invalid"
         ELSE "ok"

\* validated_jobs after the enrichment loop
validated_jobs(answer, scores) ==
    [i \in 1..Len(find_job_objects(answer)) |->
         enrich_p4(Job(find_job_objects(answer)[i]), scores)]

\* A variant in which every exception is caught by the retrying handler.
Retryable_all(kind) == kind # "ok"

\* except (ValueError, ValidationError, json.JSONDecodeError)
Retryable(kind) == kind \in {"malformed", "norecords", "invalid"}

MAX_RETRIES == 3

\* A variant whose loop runs once more.
LastAttempt_late(n) == n + 1 = MAX_RETRIES + 1

\* range(MAX_RETRIES) is used up after this attempt (attempt counts from 0)
LastAttempt(n) == n + 1 = MAX_RETRIES

-----------------------------------------------------------------------------
(* parser3.process_chunk, lines 79-122: one call, no retry.                *)

\* lines 88-99: the list the answer is taken to hold
job_list_p3(parsed_json) ==
    IF IsDict(parsed_json)
    THEN IF \E i \in 1..Len(parsed_json.v) : IsList(parsed_json.v[i].v)
         THEN parsed_json.v[CHOOSE i \in 1..Len(parsed_json.v) :
                  /\ IsList(parsed_json.v[i].v)
                  /\ \A j \in 1..(i - 1) : ~IsList(parsed_json.v[j].v)].v.v
         ELSE <<parsed_json>>
    ELSE IF IsList(parsed_json) THEN parsed_json.v
    ELSE <<>>

\* the enrichment loop raises TypeError: a dict whose district is a
\* non-empty list or dict cannot be looked up
raises_p3(job_list) ==
    \E i \in 1..Len(job_list) :
        /\ IsDict(job_list[i])
        /\ Truthy(DictGet(job_list[i], "State_District"))
        /\ Unhashable(DictGet(job_list[i], "State_District"))

\* final_jobs: the dicts of job_list, enriched; items that are no dict are
\* passed over
final_jobs_p3(job_list, scores) ==
    [i \in 1..Len(SelectSeq(job_list, IsDict)) |->
         enrich_p3(SelectSeq(job_list, IsDict)[i], scores)]

\* the value process_chunk returns
process_chunk_p3(outcome, scores) ==
    IF outcome.kind # "answer" \/ raises_p3(job_list_p3(outcome.answer)) THEN <<>>
    ELSE final_jobs_p3(job_list_p3(outcome.answer), scores)

-----------------------------------------------------------------------------
(* newparser: the listings of a document, lines 123-124.                   *)

\* the pattern MEM-\d{3}-\d{2} matches at position i
IsIdAt(text, i) ==
    /\ IsDelimAt(text, i)
    /\ i + 9 <= Len(text)
    /\ IsDigit(text[i + 4]) /\ IsDigit(text[i + 5]) /\ IsDigit(text[i + 6])
    /\ text[i + 7] = "-"
    /\ IsDigit(text[i + 8]) /\ IsDigit(text[i + 9])

\* re.split(r'(MEM-\d{3}-\d{2})', text) with every identifier joined to the
\* text that follows it; the first element is the text before the first match
RECURSIVE re_split_ids(_, _, _)
re_split_ids(text, start, i) ==
    IF i > Len(text) THEN <<SubSeq(text, start, Len(text))>>
    ELSE IF IsIdAt(text, i)
         THEN <<SubSeq(text, start, i - 1)>> \o re_split_ids(text, i, i + 10)
         ELSE re_split_ids(text, start, i + 1)

\* [d + t for d, t in zip(split_text[1::2], split_text[2::2])]
job_listings(text) == Tail(re_split_ids(text, 1, 1))

\* the columns of the CSV: those of column_order some record has
column_order ==
    <<"Post_ID", "Posting_Author", "Congress_Number", "State_District",
      "DW-NOMINATE", "LES", "Job_Function", "Title_Parsed", "Office_Type",
      "Committee_Affiliation", "Spanish_Language", "Salary_Min", "Salary_Max",
      "Years_Experience">>

csv_columns(records) ==
    SelectSeq(column_order,
              LAMBDA col : \E i \in 1..Len(records) : HasKey(records[i], col))

\* final_dataset.reindex(columns=...): a cell is empty where the record
\* has no such key
csv_rows(records) ==
    [i \in 1..Len(records) |->
         JDict([j \in 1..Len(csv_columns(records)) |->
                    KV(csv_columns(records)[j],
                       DictGet(records[i], csv_columns(records)[j]))])]

-----------------------------------------------------------------------------
(* The inputs of a run.                                                    *)

Scripts == {"parser3", "parser4", "newparser"}

S_ID1 == <<"M", "E", "M", "-", "0", "0", "1", "-", "0", "1">>
S_ID2 == <<"M", "E", "M", "-", "0", "0", "2", "-", "0", "1">>
S_CA == <<"C", "A">>
S_CA51 == <<"C", "A", "-", "5", "1">>
S_ZZ9 == <<"Z", "Z", "-", "9">>
S_Author == <<"R", "e", "p", ".", " ", "A", "l", " ", "R", "o", " ", "(", "C", "A", ")">>
S_Member == <<"R", "o", ",", " ", "A", "l">>
S_Word == <<"a", "b">>
S_Number == <<"5", "0">>

\* a listing document: readable or not, with or without an output file
Doc(readable, done, text) == [readable |-> readable, done |-> done, text |-> text]

T_One == <<"x", " ">> \o S_ID1 \o <<" ", "a", "\n">>
T_Two == S_ID1 \o <<" ", "a", " ">> \o S_ID2 \o <<" ", "b">>

Docs == {Doc(FALSE, FALSE, <<>>), Doc(TRUE, FALSE, T_One),
         Doc(TRUE, FALSE, T_Two), Doc(TRUE, TRUE, T_One)}

\* a row of the spreadsheet
Row(congress, state, district, nominate, les, name) ==
    (CONGRESS_COL :> Num(congress)) @@ (STATE_COL :> Txt(state))
        @@ (DISTRICT_COL :> district) @@ (NOMINATE_COL :> Num(nominate))
        @@ (LES_COL :> Num(les)) @@ (MEMBER_NAME_COL :> name)

AllColumns == {CONGRESS_COL, STATE_COL, DISTRICT_COL, NOMINATE_COL, LES_COL,
               MEMBER_NAME_COL}

\* the sheet with only the columns cols
Sheet(loadable, cols, rows) ==
    [loadable |-> loadable, columns |-> cols,
     rows |-> [i \in 1..Len(rows) |-> [c \in cols |-> rows[i][c]]]]

GoodRows == << Row(117, S_CA, Num(51), 30, 90, Txt(S_Member)),
               Row(118, S_CA, Num(51), 45, 120, Txt(S_Member)) >>

Excels ==
    { Sheet(FALSE, {}, <<>>),
      Sheet(TRUE, AllColumns \ {CONGRESS_COL}, GoodRows),
      Sheet(TRUE, AllColumns \ {LES_COL}, GoodRows),
      Sheet(TRUE, AllColumns, GoodRows),
      Sheet(TRUE, AllColumns,
            GoodRows \o <<Row(118, S_CA, NaN, 10, 20, NaN)>>) }

\* candidate objects of an answer
Obj(id, rest) == JDict(<<KV("Post_ID", id)>> \o rest \o <<KV("Cleaned_Text", JStr(S_Word))>>)

C_Hit == Obj(JStr(S_ID1), <<KV("Posting_Author", JStr(S_Author)),
                            KV("State_District", JStr(S_CA51)),
                            KV("Salary_Min", JStr(S_Number))>>)
C_Miss == Obj(JStr(S_ID2), <<KV("State_District", JStr(S_ZZ9)),
                             KV("Responsibilities", JList(<<JStr(S_Word)>>))>>)
C_NoKey == Obj(JStr(S_ID2), <<KV("State_District", JNull)>>)
C_WrongType == Obj(JStr(S_ID2), <<KV("State_District", JStr(S_CA51)),
                                  KV("Salary_Min", JStr(S_Word))>>)
C_EmptyId == Obj(JStr(<<>>), <<>>)
C_OddId == Obj(JStr(S_Word), <<KV("State_District", JStr(S_CA51))>>)
C_NullId == Obj(JNull, <<>>)
C_NoId == JDict(<<KV("Title_Parsed", JStr(S_Word)),
                  KV("State_District", JStr(S_CA51))>>)
C_Scored == Obj(JStr(S_ID1), <<KV("State_District", JStr(S_ZZ9)),
                               KV("DW_NOMINATE", JFloat(70)),
                               KV("DW-NOMINATE", JFloat(70))>>)
C_ListKey == JDict(<<KV("Post_ID", JStr(S_ID1)),
                     KV("State_District", JList(<<JStr(S_CA51)>>))>>)

Candidates == {C_Hit, C_Miss, C_NoKey, C_WrongType, C_EmptyId, C_OddId,
               C_NullId, C_NoId, C_Scored, C_ListKey}

\* the answers of the endpoint: one object, a list of objects, a list under
\* a key, and answers that hold no object at all
Answers ==
    Candidates
        \cup {JList(<<C_Hit, c>>) : c \in {C_Miss, C_WrongType, C_NoId}}
        \cup {JDict(<<KV("jobs", JList(<<C_Hit, C_Miss>>))>>),
              JDict(<<KV("result", JStr(S_Word))>>),
              JNull,
              JList(<<JStr(S_Word)>>)}

A_NoObject == JDict(<<KV("result", JStr(S_Word))>>)

\* the endpoint of a run: it gives one answer whenever it answers, or one of
\* two, an unusable and a usable one
Endpoints ==
    {{a} : a \in Answers}
        \cup {{bad, good} : bad \in {A_NoObject, JList(<<C_Hit, C_WrongType>>)},
                            good \in {C_Hit, JList(<<C_Hit, C_Miss>>)}}

\* what an extraction call comes to: the request raises ("transport"), the
\* body is no JSON ("malformed"), or json.loads returns a value
Raised(kind) == [kind |-> kind, answer |-> JNull]
Answered(answer) == [kind |-> "answer", answer |-> answer]
Outcomes(answers) ==
    {Raised("transport"), Raised("malformed")} \cup {Answered(a) : a \in answers}

\* a file of the output directory
NoFile == [exists |-> FALSE, records |-> <<>>]
File(records) == [exists |-> TRUE, records |-> records]
OldFile == File(<<JDict(<<KV("Post_ID", JStr(S_ID1))>>)>>)

\* the output directory before the run
InitialOutputs(dir) ==
    [i \in 1..Len(dir) |-> IF dir[i].done THEN OldFile ELSE NoFile]

-----------------------------------------------------------------------------
(* The batch run: main of parser3 and parser4, and the main block of       *)
(* newparser with process_all_pdfs_in_folder.                              *)

Init ==
    /\ script \in Scripts
    /\ excel \in Excels
    /\ input_dir \in SeqsUpTo(Docs, MaxFiles)
    /\ endpoint \in Endpoints
    /\ pc = "start"
    /\ scores_map = EmptyMap
    /\ processed_files = {}
    /\ fi = 0
    /\ ci = 0
    /\ attempt = 0
    /\ text_string = <<>>
    /\ chunks = <<>>
    /\ all_jobs = <<>>
    /\ jobs = <<>>
    /\ data = JNull
    /\ job_data_list = <<>>
    /\ outputs = InitialOutputs(input_dir)
    /\ csv_file = NoFile
    /\ trail = <<>>
    /\ called = FALSE
    /\ reads = {}
    /\ attempted = {}

inputs == <<script, excel, input_dir, endpoint>>
chunk_vars == <<attempt, jobs, data, job_data_list, trail, attempted>>

\* A variant of main that goes on with an empty map.
main_halts_never(scores) == FALSE

\* if not scores_map: return
main_halts(scores) == IsFalsy(scores)

\* parser3 main, lines 127-140, and parser4 main, lines 135-147
LoadScores ==
    /\ pc = "start"
    /\ script \in {"parser3", "parser4"}
    /\ scores_map' = IF script = "parser3"
                     THEN load_scores_from_excel_p3(excel)
                     ELSE load_scores_from_excel_p4(excel)
    /\ IF main_halts(scores_map')
       THEN pc' = "halted" /\ UNCHANGED <<processed_files, fi>>
       ELSE /\ pc' = "next_file"
            /\ fi' = 1
            /\ processed_files' =
                   IF script = "parser3"
                   THEN {i \in 1..Len(input_dir) : outputs[i].exists}
                   ELSE {}
    /\ called' = FALSE
    /\ UNCHANGED <<inputs, ci, text_string, chunks, all_jobs, outputs, csv_file,
                   reads, chunk_vars>>

\* newparser, lines 148-151 and 108-114: the run goes on whatever load_scores gave
NP_LoadScores ==
    /\ pc = "start"
    /\ script = "newparser"
    /\ scores_map' = load_scores(excel)
    /\ pc' = "next_file"
    /\ fi' = 1
    /\ all_jobs' = <<>>
    /\ called' = FALSE
    /\ UNCHANGED <<inputs, processed_files, ci, text_string, chunks, outputs,
                   csv_file, reads, chunk_vars>>

\* parser3 main, line 144: a document that has an output is passed over
SkipProcessed ==
    /\ pc = "next_file"
    /\ script = "parser3"
    /\ fi <= Len(input_dir)
    /\ fi \in processed_files
    /\ fi' = fi + 1
    /\ called' = FALSE
    /\ UNCHANGED <<inputs, pc, scores_map, processed_files, ci, text_string,
                   chunks, all_jobs, outputs, csv_file, reads, chunk_vars>>

\* parser3 main, lines 147-151, and parser4 main, lines 151-155: an error
\* of open() or read() leaves main
ReadFile ==
    /\ pc = "next_file"
    /\ script \in {"parser3", "parser4"}
    /\ fi <= Len(input_dir)
    /\ fi \notin processed_files
    /\ IF input_dir[fi].readable
       THEN /\ text_string' = input_dir[fi].text
            /\ chunks' = split_into_job_chunks(input_dir[fi].text)
            /\ all_jobs' = <<>>
            /\ ci' = 1
            /\ pc' = "chunk"
            /\ reads' = reads \cup {fi}
       ELSE /\ pc' = "crashed"
            /\ UNCHANGED <<text_string, chunks, all_jobs, ci, reads>>
    /\ called' = FALSE
    /\ UNCHANGED <<inputs, scores_map, processed_files, fi, outputs, csv_file,
                   chunk_vars>>

\* newparser, lines 116-125 and 141-142: an error of the reader is caught
\* and the loop goes to the next file
NP_ReadFile ==
    /\ pc = "next_file"
    /\ script = "newparser"
    /\ fi <= Len(input_dir)
    /\ IF input_dir[fi].readable
       THEN /\ text_string' = input_dir[fi].text
            /\ chunks' = job_listings(input_dir[fi].text)
            /\ ci' = 1
            /\ pc' = "chunk"
            /\ reads' = reads \cup {fi}
            /\ fi' = fi
       ELSE /\ fi' = fi + 1
            /\ UNCHANGED <<text_string, chunks, ci, pc, reads>>
    /\ called' = FALSE
    /\ UNCHANGED <<inputs, scores_map, processed_files, all_jobs, outputs,
                   csv_file, chunk_vars>>

\* the three outcomes of a process_chunk attempt of parser4, lines 92-129
P4_Attempt ==
    /\ pc = "chunk"
    /\ script = "parser4"
    /\ ci <= Len(chunks)
    /\ \E outcome \in Outcomes(endpoint) :
         LET kind == attempt_kind(outcome) IN
         /\ trail' = IF attempt = 0 THEN <<kind>> ELSE Append(trail, kind)
         /\ data' = IF outcome.kind = "answer" THEN outcome.answer ELSE data
         /\ job_data_list' = IF outcome.kind = "answer"
                             THEN find_job_objects(outcome.answer)
                             ELSE job_data_list
         /\ IF kind = "ok"
            THEN /\ jobs' = validated_jobs(outcome.answer, scores_map)
                 /\ all_jobs' = all_jobs \o jobs'
                 /\ ci' = ci + 1
                 /\ attempt' = 0
            ELSE IF Retryable(kind) /\ ~LastAttempt(attempt)
            THEN /\ attempt' = attempt + 1
                 /\ UNCHANGED <<jobs, all_jobs, ci>>
            ELSE /\ jobs' = <<>>
                 /\ ci' = ci + 1
                 /\ attempt' = 0
                 /\ UNCHANGED all_jobs
    /\ called' = TRUE
    /\ attempted' = attempted \cup {<<fi, ci>>}
    /\ UNCHANGED <<inputs, pc, scores_map, processed_files, fi, text_string,
                   chunks, outputs, csv_file, reads>>

\* parser3 main, lines 157-160, with process_chunk, lines 79-122
P3_ProcessChunk ==
    /\ pc = "chunk"
    /\ script = "parser3"
    /\ ci <= Len(chunks)
    /\ \E outcome \in Outcomes(endpoint) :
         /\ trail' = << IF outcome.kind # "answer" THEN outcome.kind
                        ELSE IF raises_p3(job_list_p3(outcome.answer)) THEN "error"
                        ELSE "ok" >>
         /\ data' = IF outcome.kind = "answer" THEN outcome.answer ELSE data
         /\ job_data_list' = IF outcome.kind = "answer"
                             THEN job_list_p3(outcome.answer)
                             ELSE job_data_list
         /\ jobs' = process_chunk_p3(outcome, scores_map)
         /\ all_jobs' = all_jobs \o jobs'
    /\ ci' = ci + 1
    /\ called' = TRUE
    /\ attempted' = attempted \cup {<<fi, ci>>}
    /\ UNCHANGED <<inputs, pc, scores_map, processed_files, fi, attempt,
                   text_string, chunks, outputs, csv_file, reads>>

\* newparser, lines 127-142, with parse_job_listing_with_ollama: any error
\* of the call gives None; an answer that is no dict raises at .get and
\* the except of the file loop ends the file
NP_Listing ==
    /\ pc = "chunk"
    /\ script = "newparser"
    /\ ci <= Len(chunks)
    /\ \E outcome \in Outcomes(endpoint) :
         LET parsed_data == outcome.answer IN
         /\ trail' = << IF outcome.kind # "answer" THEN outcome.kind
                        ELSE IF Truthy(parsed_data) /\ ~IsDict(parsed_data)
                        THEN "error"
                        ELSE "ok" >>
         /\ data' = parsed_data
         /\ IF ~Truthy(parsed_data)
            THEN ci' = ci + 1 /\ UNCHANGED <<all_jobs, fi, pc>>
            ELSE IF ~IsDict(parsed_data)
            THEN fi' = fi + 1 /\ pc' = "next_file" /\ UNCHANGED <<all_jobs, ci>>
            ELSE /\ all_jobs' = Append(all_jobs, enrich_np(parsed_data, scores_map))
                 /\ ci' = ci + 1
                 /\ UNCHANGED <<fi, pc>>
    /\ called' = TRUE
    /\ attempted' = attempted \cup {<<fi, ci>>}
    /\ UNCHANGED <<inputs, scores_map, processed_files, attempt, text_string,
                   chunks, jobs, job_data_list, outputs, csv_file, reads>>

\* parser3 main, lines 162-166, and parser4 main, lines 163-169
WriteOutput ==
    /\ pc = "chunk"
    /\ script \in {"parser3", "parser4"}
    /\ ci > Len(chunks)
    /\ outputs' = [outputs EXCEPT ![fi] = File(all_jobs)]
    /\ fi' = fi + 1
    /\ pc' = "next_file"
    /\ called' = FALSE
    /\ UNCHANGED <<inputs, scores_map, processed_files, ci, text_string, chunks,
                   all_jobs, csv_file, reads, chunk_vars>>

\* newparser: the for loop over the listings of a file is over
NP_NextFile ==
    /\ pc = "chunk"
    /\ script = "newparser"
    /\ ci > Len(chunks)
    /\ fi' = fi + 1
    /\ pc' = "next_file"
    /\ called' = FALSE
    /\ UNCHANGED <<inputs, scores_map, processed_files, ci, text_string, chunks,
                   all_jobs, outputs, csv_file, reads, chunk_vars>>

\* parser3 and parser4: the for loop over the files is over
Finish ==
    /\ pc = "next_file"
    /\ script \in {"parser3", "parser4"}
    /\ fi > Len(input_dir)
    /\ pc' = "done"
    /\ called' = FALSE
    /\ UNCHANGED <<inputs, scores_map, processed_files, fi, ci, text_string,
                   chunks, all_jobs, outputs, csv_file, reads, chunk_vars>>

\* newparser, lines 144 and 153-170: the CSV is written unless no record
\* was collected
NP_Finish ==
    /\ pc = "next_file"
    /\ script = "newparser"
    /\ fi > Len(input_dir)
    /\ csv_file' = IF all_jobs = <<>> THEN csv_file ELSE File(csv_rows(all_jobs))
    /\ pc' = "done"
    /\ called' = FALSE
    /\ UNCHANGED <<inputs, scores_map, processed_files, fi, ci, text_string,
                   chunks, all_jobs, outputs, reads, chunk_vars>>

Next ==
    \/ LoadScores
    \/ NP_LoadScores
    \/ SkipProcessed
    \/ ReadFile
    \/ NP_ReadFile
    \/ P4_Attempt
    \/ P3_ProcessChunk
    \/ NP_Listing
    \/ WriteOutput
    \/ NP_NextFile
    \/ Finish
    \/ NP_Finish

Spec == Init /\ [][Next]_vars

Terminal == {"done", "halted", "crashed"}

-----------------------------------------------------------------------------
(* The segmenter on its own: main, line 154 of parser4 (150 of parser3),   *)
(* on texts put together from a few pieces.                                *)

Pieces == {Delim, <<"M", "E">>, <<"M", "-">>, <<" ">>, <<"\n">>, <<"x">>}

T_Example == <<"j">> \o S_ID1 \o <<" ", "a">> \o S_ID2 \o <<" ", "b">>

Texts == {Flatten(ps) : ps \in SeqsUpTo(Pieces, MaxPieces)} \cup {T_Example, T_One, T_Two}

\* every variable the step at hand does not use
Unused ==
    /\ script = "parser4"
    /\ excel = Sheet(FALSE, {}, <<>>)
    /\ input_dir = <<>>
    /\ endpoint = {}
    /\ scores_map = EmptyMap
    /\ processed_files = {}
    /\ fi = 0
    /\ ci = 0
    /\ attempt = 0
    /\ all_jobs = <<>>
    /\ jobs = <<>>
    /\ outputs = <<>>
    /\ csv_file = NoFile
    /\ trail = <<>>
    /\ called = FALSE
    /\ reads = {}
    /\ attempted = {}

InitSeg ==
    /\ Unused
    /\ pc = "segment"
    /\ text_string \in Texts
    /\ chunks = <<>>
    /\ data = JNull
    /\ job_data_list = <<>>

\* chunks = split_into_job_chunks(text_string)
Segment ==
    /\ pc = "segment"
    /\ chunks' = split_into_job_chunks(text_string)
    /\ pc' = "segmented"
    /\ UNCHANGED <<inputs, scores_map, processed_files, fi, ci, text_string,
                   all_jobs, outputs, csv_file, called, reads, chunk_vars>>

SpecSeg == InitSeg /\ [][Segment]_vars

-----------------------------------------------------------------------------
(* The search for job objects on its own: process_chunk of parser4, line   *)
(* 102, on answers nested up to MaxDepth.                                  *)

F_Rec1 == JDict(<<KV("Post_ID", JStr(S_ID1))>>)
F_Rec2 == JDict(<<KV("Post_ID", JStr(S_ID2)), KV("related", JList(<<F_Rec1>>))>>)
F_Plain == JDict(<<KV("note", JStr(S_Word))>>)

Leaves == {JStr(S_Word), F_Rec1, F_Rec2, F_Plain}
WrapKeys == {"jobs", "data"}

\* one more container around the values of S
Nest(S) ==
    S \cup {JList(<<a>>) : a \in S}
      \cup {JList(<<a, b>>) : a \in S, b \in Leaves}
      \cup {JList(<<b, a>>) : a \in S, b \in Leaves}
      \cup {JDict(<<KV(k, a)>>) : k \in WrapKeys, a \in S}
      \cup {JDict(<<KV("jobs", a), KV("more", b)>>) : a \in S, b \in Leaves}

RECURSIVE JsonValues(_)
JsonValues(depth) == IF depth = 0 THEN Leaves ELSE Nest(JsonValues(depth - 1))

InitFind ==
    /\ Unused
    /\ pc = "find"
    /\ text_string = <<>>
    /\ chunks = <<>>
    /\ data \in JsonValues(MaxDepth)
    /\ job_data_list = <<>>

\* job_data_list = find_job_objects(data)
Find ==
    /\ pc = "find"
    /\ job_data_list' = find_job_objects(data)
    /\ pc' = "found"
    /\ UNCHANGED <<inputs, scores_map, processed_files, fi, ci, attempt,
                   text_string, chunks, all_jobs, jobs, data, outputs, csv_file,
                   trail, called, reads, attempted>>

SpecFind == InitFind /\ [][Find]_vars

-----------------------------------------------------------------------------
(* Properties of the segmenter.                                            *)

\* the positions of the text where "MEM-" starts
Occurrences(text) == {i \in 1..Len(text) : IsDelimAt(text, i)}

\* the k-th smallest element of a set of numbers
Nth(S, k) == CHOOSE x \in S : Cardinality({y \in S : y < x}) = k - 1

\* where the text of chunk k ends: before the next occurrence, or at the end
SegmentEnd(text, k) ==
    IF k < Cardinality(Occurrences(text)) THEN Nth(Occurrences(text), k + 1) - 1
    ELSE Len(text)

\* C7: split_into_job_chunks gives one chunk per occurrence of "MEM-", in
\* document order; chunk k is the text from the k-th occurrence on, it starts
\* with "MEM-" and holds no other occurrence, it neither starts nor ends with
\* whitespace, it is not empty, and all it leaves out up to the next
\* occurrence is whitespace; the text before the first occurrence is in no
\* chunk, and a text without "MEM-" gives no chunk.  The junk/MEM-001-01/
\* MEM-002-01 example gives exactly its two listings.
C7_OneChunkPerOccurrence ==
    pc = "segmented" =>
      LET occ == Occurrences(text_string) IN
      /\ Len(chunks) = Cardinality(occ)
      /\ \A k \in 1..Len(chunks) :
           LET from == Nth(occ, k)
               to == from + Len(chunks[k]) - 1 IN
           /\ chunks[k] # <<>>
           /\ Occurrences(chunks[k]) = {1}
           /\ chunks[k][1] \notin Whitespace
           /\ chunks[k][Len(chunks[k])] \notin Whitespace
           /\ to <= SegmentEnd(text_string, k)
           /\ SubSeq(text_string, from, to) = chunks[k]
           /\ \A i \in (to + 1)..SegmentEnd(text_string, k) :
                  text_string[i] \in Whitespace
      /\ text_string = T_Example =>
             chunks = <<S_ID1 \o <<" ", "a">>, S_ID2 \o <<" ", "b">>>>

\* C7, witness: a text with something before the first "MEM-" and blanks
\* after a listing has been cut into two chunks
C7_Witness ==
    /\ pc = "segmented"
    /\ Len(chunks) = 2
    /\ ~IsDelimAt(text_string, 1)
    /\ text_string[Len(text_string)] \in Whitespace

\* the text from the first occurrence of "MEM-" on
AfterFront(text) ==
    IF Occurrences(text) = {} THEN <<>>
    ELSE SubSeq(text, Nth(Occurrences(text), 1), Len(text))

\* position i lies in a run of whitespace that reaches the next "MEM-" or
\* the end of the text
TrailingBlank(text, i) ==
    \E j \in i..Len(text) :
        /\ \A m \in i..j : text[m] \in Whitespace
        /\ j = Len(text) \/ IsDelimAt(text, j + 1)

RECURSIVE WithoutTrailingBlanks(_, _)
WithoutTrailingBlanks(text, i) ==
    IF i > Len(text) THEN <<>>
    ELSE (IF TrailingBlank(text, i) THEN <<>> ELSE <<text[i]>>)
             \o WithoutTrailingBlanks(text, i + 1)

\* C8 as stated: the chunks, joined in order, are the text without what
\* stands before the first "MEM-"
C8_JoinRestoresText ==
    pc = "segmented" => Flatten(chunks) = AfterFront(text_string)

\* C8, amended: the chunks, joined in order, are the text without what
\* stands before the first "MEM-" and without the whitespace that directly
\* precedes a later "MEM-" or the end of the text
C8_JoinRestoresTrimmedText ==
    pc = "segmented" =>
        Flatten(chunks) = WithoutTrailingBlanks(AfterFront(text_string), 1)

\* C8, witness: two chunks were cut from a text with whitespace between them
C8_Witness ==
    /\ pc = "segmented"
    /\ Len(chunks) = 2
    /\ Flatten(chunks) # AfterFront(text_string)

-----------------------------------------------------------------------------
(* Properties of the search for job objects.                               *)

IsRecord(x) == IsDict(x) /\ HasKey(x, ID_FIELD)

\* the paths of child indices that lead to a node of x
RECURSIVE Paths(_)
Paths(x) ==
    {<<>>} \cup UNION {{<<i>> \o p : p \in Paths(Children(x)[i])} :
                         i \in 1..Len(Children(x))}

RECURSIVE NodeAt(_, _)
NodeAt(x, path) ==
    IF path = <<>> THEN x ELSE NodeAt(Children(x)[Head(path)], Tail(path))

\* the nodes that hold the identifier field and lie below no such node
Outermost(x) ==
    {p \in Paths(x) :
        /\ IsRecord(NodeAt(x, p))
        /\ \A n \in 0..(Len(p) - 1) : ~IsRecord(NodeAt(x, SubSeq(p, 1, n)))}

\* p is met before q in a depth-first walk; neither is a prefix of the other
Before(p, q) ==
    \E i \in 1..Len(p) :
        /\ i <= Len(q)
        /\ p[i] < q[i]
        /\ \A j \in 1..(i - 1) : p[j] = q[j]

-----------------------------------------------------------------------------
(* Properties of the retry loop of parser4.process_chunk.                  *)

Last(seq) == seq[Len(seq)]

\* the failures the first except clause catches
RetryableFailures == {"malformed", "norecords", "invalid"}

\* the last process_chunk call has returned
Returned == attempt = 0 /\ trail # <<>>

\* C1: process_chunk of parser4 makes its attempts one after another: a
\* further attempt is made only after a retryable failure, and never more
\* than 3 in all.  It returns at the first success with the records of that
\* attempt (so after two failures and a success: after exactly 3 calls, with
\* the third attempt's records), and after 3 retryable failures it returns
\* an empty result after exactly 3 calls; no call of it ends the run.
C1_BoundedRetry ==
    script = "parser4" =>
      /\ Len(trail) <= 3
      /\ \A i \in 1..(Len(trail) - 1) : trail[i] \in RetryableFailures
      /\ attempt # 0 => Len(trail) = attempt /\ Last(trail) \in RetryableFailures
      /\ Returned /\ Last(trail) = "ok" =>
             /\ jobs # <<>>
             /\ jobs = [i \in 1..Len(find_job_objects(data)) |->
                            enrich_p4(Job(find_job_objects(data)[i]), scores_map)]
      /\ Returned /\ Last(trail) \in RetryableFailures =>
             Len(trail) = 3 /\ jobs = <<>>
      /\ called => pc = "chunk"

\* C1, witness: two failures of different kinds, then a success on the
\* third call, whose records were returned
C1_Witness ==
    /\ script = "parser4"
    /\ Returned
    /\ trail = <<"norecords", "malformed", "ok">>
    /\ jobs # <<>>
    /\ all_jobs = jobs

\* C2 as stated: once an extraction call has failed with a transport error
\* the run is over, so that no further attempt, chunk or document follows
C2_TransportAbortsRun ==
    (script = "parser4" /\ trail # <<>> /\ Last(trail) = "transport")
        => pc \in Terminal

\* C2, amended: a call that fails with a transport error is not retried;
\* process_chunk returns an empty result for that chunk at once, nothing is
\* added to the records of the document, and main goes on with the for loop
\* over the chunks
C2_TransportEndsChunkOnly ==
    [][(script = "parser4" /\ called' /\ Last(trail') = "transport") =>
          /\ Len(trail') = attempt + 1
          /\ attempt' = 0
          /\ jobs' = <<>>
          /\ all_jobs' = all_jobs
          /\ ci' = ci + 1
          /\ fi' = fi
          /\ pc' = "chunk"
          /\ outputs' = outputs]_vars

\* C2, witness: the second attempt on a chunk failed with a transport error
\* and another chunk of the document is still to come
C2_Witness ==
    /\ script = "parser4"
    /\ called
    /\ trail = <<"malformed", "transport">>
    /\ pc = "chunk"
    /\ ci = 2
    /\ ci <= Len(chunks)

-----------------------------------------------------------------------------
(* Properties of validation and enrichment.                                *)

\* the candidate gives an optional field a value of the wrong type
WrongTypedOptional(item) ==
    \E i \in 1..Len(JobFields) :
        /\ ~JobFields[i].required
        /\ Given(item, JobFields[i].name)
        /\ ~FieldOk(JobFields[i].type, DictGet(item, JobFields[i].name))

\* C3 as stated: when the last answer held a candidate with a wrong-typed
\* optional field next to valid candidates, process_chunk of parser4 has
\* returned, without a retry, the valid candidates (validated and enriched)
C3_ValidSiblingsReturned ==
    ( /\ script = "parser4"
      /\ trail # <<>>
      /\ Last(trail) \in {"ok", "invalid"}
      /\ \E i \in 1..Len(job_data_list) : WrongTypedOptional(job_data_list[i])
      /\ \E i \in 1..Len(job_data_list) : IsValidJob(job_data_list[i]) )
    => /\ Returned
       /\ Len(trail) = 1
       /\ jobs = [i \in 1..Len(SelectSeq(job_data_list, IsValidJob)) |->
                      enrich_p4(Job(SelectSeq(job_data_list, IsValidJob)[i]),
                                scores_map)]

\* the documents whose output file this run has written (parser3 and
\* parser4; newparser writes no file per document)
Written == IF script = "newparser" THEN {} ELSE {i \in reads : i < fi}

\* the records the run has emitted so far
Emitted ==
    {all_jobs[k] : k \in 1..Len(all_jobs)}
        \cup UNION {{outputs[i].records[k] : k \in 1..Len(outputs[i].records)} :
                      i \in Written}
        \cup {csv_file.records[k] : k \in 1..Len(csv_file.records)}

\* the string is a listing identifier, MEM-###-##
IsListingId(str) == Len(str) = 10 /\ IsIdAt(str, 1)

\* C4 as stated: every emitted record has a Post_ID that is a non-empty
\* string of the form MEM-###-##, in every script
C4_EmittedIdMatchesPattern ==
    \A r \in Emitted :
        /\ HasKey(r, ID_FIELD)
        /\ DictGet(r, ID_FIELD).t = "str"
        /\ IsListingId(DictGet(r, ID_FIELD).v)

\* C4, amended: every record parser4 emits has a Post_ID that is present and
\* is a string, and satisfies the Job schema; a candidate whose identifier
\* is missing or null is never emitted by parser4
C4_EmittedIdIsString ==
    script = "parser4" =>
        \A r \in Emitted \cup {jobs[k] : k \in 1..Len(jobs)} :
            /\ HasKey(r, ID_FIELD)
            /\ DictGet(r, ID_FIELD).t = "str"
            /\ IsValidJob(r)

\* C4, witness: parser4 has written an output file that holds a record
\* whose Post_ID is a string that is no listing identifier
C4_Witness ==
    /\ script = "parser4"
    /\ \E i \in Written : \E k \in 1..Len(outputs[i].records) :
           /\ DictGet(outputs[i].records[k], ID_FIELD).t = "str"
           /\ ~IsListingId(DictGet(outputs[i].records[k], ID_FIELD).v)

\* the two score fields of a record, as the running script names them
NominateKey == IF script = "parser4" THEN "DW_NOMINATE" ELSE "DW-NOMINATE"
LesKey == "LES"

\* the key by which the running script looks a record up
LookupKey(r) ==
    IF script = "newparser"
    THEN standardize_author_name(DictGet(r, "Posting_Author"))
    ELSE IF DictGet(r, "State_District").t = "str"
         THEN DictGet(r, "State_District").v
         ELSE <<>>

\* C6 as stated: every emitted record has both score fields; they are the
\* two scores of the entry when the key of the record is in the table, and
\* both None when it is not or the key field is absent or null
C6_BothScoresSet ==
    \A r \in Emitted :
        /\ HasKey(r, NominateKey)
        /\ HasKey(r, LesKey)
        /\ IF ~scores_map.none /\ LookupKey(r) \in DOMAIN scores_map.map
           THEN /\ DictGet(r, NominateKey) = JFloat(scores_map.map[LookupKey(r)].dw_nominate)
                /\ DictGet(r, LesKey) = JFloat(scores_map.map[LookupKey(r)].les)
           ELSE /\ DictGet(r, NominateKey) = JNull
                /\ DictGet(r, LesKey) = JNull

-----------------------------------------------------------------------------
(* Properties of the batch.                                                *)

\* the columns the running script reads
RequiredColumns ==
    IF script = "newparser" THEN {MEMBER_NAME_COL, NOMINATE_COL, LES_COL}
    ELSE {CONGRESS_COL, STATE_COL, DISTRICT_COL, NOMINATE_COL, LES_COL}

\* the sheet cannot be loaded, or lacks a column the script reads
Unbuildable == ~excel.loadable \/ RequiredColumns \ excel.columns # {}

\* nothing has been processed: no document read, no call made, no file written
NothingProcessed ==
    /\ reads = {}
    /\ attempted = {}
    /\ trail = <<>>
    /\ all_jobs = <<>>
    /\ outputs = InitialOutputs(input_dir)
    /\ csv_file = NoFile

\* C9 as stated: when the table cannot be built the build gives an empty
\* map and the run stops before any processing, in every script
C9_NoTableNoProcessing ==
    (pc # "start" /\ Unbuildable) =>
        /\ scores_map = EmptyMap
        /\ pc = "halted"
        /\ NothingProcessed

\* C9, amended: in parser3 and parser4 an unbuildable table gives an empty
\* map and the run stops before any processing; in newparser it gives None,
\* the run is not stopped, and every record collected has None for both
\* scores
C9_NoTableHaltsMain ==
    (pc # "start" /\ Unbuildable) =>
        IF script \in {"parser3", "parser4"}
        THEN /\ scores_map = EmptyMap
             /\ pc = "halted"
             /\ NothingProcessed
        ELSE /\ scores_map = NoScores
             /\ pc # "halted"
             /\ \A k \in 1..Len(all_jobs) :
                    /\ DictGet(all_jobs[k], "DW-NOMINATE") = JNull
                    /\ DictGet(all_jobs[k], "LES") = JNull

\* C9, witness: a sheet that loads but lacks a column has stopped parser3 or
\* parser4 in front of a directory with a readable document
C9_Witness ==
    /\ script \in {"parser3", "parser4"}
    /\ pc = "halted"
    /\ excel.loadable
    /\ \E i \in 1..Len(input_dir) : input_dir[i].readable /\ ~input_dir[i].done

\* the chunks the running script cuts document i into
ChunksOf(i) ==
    IF script = "newparser" THEN job_listings(input_dir[i].text)
    ELSE split_into_job_chunks(input_dir[i].text)

\* C10 as stated: when the run is over (and was not stopped for want of a
\* score table), every readable document that had no output before was read,
\* each of its chunks was sent to the endpoint, and it has its output,
\* whatever happened to the other documents and chunks
C10_ErrorsIsolated ==
    (pc \in Terminal /\ pc # "halted") =>
        \A i \in 1..Len(input_dir) :
            (input_dir[i].readable /\ i \notin processed_files) =>
                /\ i \in reads
                /\ script # "newparser" => i \in Written /\ outputs[i].exists
                /\ (\A a \in endpoint : IsDict(a) \/ ~Truthy(a)) =>
                       \A c \in 1..Len(ChunksOf(i)) : <<i, c>> \in attempted

-----------------------------------------------------------------------------
(* Properties of a run over a directory that already has outputs.          *)

\* document i had its output file before the run
HadOutput(i) == input_dir[i].done

\* C11 as stated: in parser3 and parser4 a document whose output file
\* already exists is passed over: it is not read or cut into chunks, no
\* extraction call is made for any of its chunks, and its output file is
\* left as it was; so a run over documents that all have their output makes
\* no extraction call and changes no output
C11_ExistingOutputSkipped ==
    script \in {"parser3", "parser4"} =>
        /\ \A i \in 1..Len(input_dir) :
               HadOutput(i) =>
                   /\ i \notin reads
                   /\ \A c \in 1..Len(ChunksOf(i)) : <<i, c>> \notin attempted
                   /\ outputs[i] = OldFile
        /\ (\A i \in 1..Len(input_dir) : HadOutput(i)) =>
               /\ attempted = {}
               /\ ~called
               /\ outputs = InitialOutputs(input_dir)

\* C11, parser3 alone: main passes over every document that has its output
C11_Parser3Skips ==
    script = "parser3" => C11_ExistingOutputSkipped

\* C11, witness: parser4 has finished a run in which it read a document that
\* had its output, sent its chunk to the endpoint and wrote the output anew
C11_Witness ==
    /\ script = "parser4"
    /\ pc = "done"
    /\ \E i \in 1..Len(input_dir) :
           /\ HadOutput(i)
           /\ i \in reads
           /\ <<i, 1>> \in attempted
           /\ outputs[i] # OldFile

-----------------------------------------------------------------------------
(* The district map on its own: main, line 136 of parser4 (128 of          *)
(* parser3), on sheets of a few rows of several sessions.                  *)

MaxRows == 3        \* rows of the sheet

S_ZZ == <<"Z", "Z">>

\* rows of three sessions and two districts, each with scores of its own;
\* one district comes twice in the latest session, and one row of the
\* latest session has an empty district cell
SessionRows ==
    { Row(116, S_CA, Num(51), 11, 12, NaN),
      Row(117, S_CA, Num(51), 21, 22, NaN),
      Row(118, S_CA, Num(51), 31, 32, NaN),
      Row(118, S_CA, Num(51), 41, 42, NaN),
      Row(116, S_ZZ, Num(9), 51, 52, NaN),
      Row(117, S_ZZ, Num(9), 61, 62, NaN),
      Row(118, S_ZZ, Num(9), 71, 72, NaN),
      Row(118, S_CA, NaN, 81, 82, NaN) }

InitScores ==
    /\ script \in {"parser3", "parser4"}
    /\ excel \in {Sheet(TRUE, AllColumns, rows) : rows \in SeqsUpTo(SessionRows, MaxRows)}
    /\ input_dir = <<>>
    /\ endpoint = {}
    /\ pc = "load"
    /\ scores_map = EmptyMap
    /\ processed_files = {}
    /\ fi = 0
    /\ ci = 0
    /\ attempt = 0
    /\ text_string = <<>>
    /\ chunks = <<>>
    /\ all_jobs = <<>>
    /\ jobs = <<>>
    /\ data = JNull
    /\ job_data_list = <<>>
    /\ outputs = <<>>
    /\ csv_file = NoFile
    /\ trail = <<>>
    /\ called = FALSE
    /\ reads = {}
    /\ attempted = {}

\* scores_map = load_scores_from_excel(scores_filepath)
LoadOnly ==
    /\ pc = "load"
    /\ scores_map' = IF script = "parser3"
                     THEN load_scores_from_excel_p3(excel)
                     ELSE load_scores_from_excel_p4(excel)
    /\ pc' = "loaded"
    /\ UNCHANGED <<inputs, processed_files, fi, ci, text_string, chunks,
                   all_jobs, outputs, csv_file, called, reads, chunk_vars>>

SpecScores == InitScores /\ [][LoadOnly]_vars

-----------------------------------------------------------------------------
(* Properties of the district map.                                         *)

\* the sessions of the rows
Sessions(rows) == {rows[i][CONGRESS_COL].v : i \in 1..Len(rows)}

\* row i is of the highest session of the sheet
OfMaxSession(rows, i) == \A n \in Sessions(rows) : n <= rows[i][CONGRESS_COL].v

\* row i has the district key and is a row the map can be built from
HasDistrictKey(rows, i, key) ==
    /\ rows[i][DISTRICT_COL].t = "num"
    /\ district_key(rows[i]) = key

\* C12: the district map is built from the rows of the highest session
\* only: every key of the map is the key of a row of that session and
\* carries the scores of that row, no row of
\* an earlier session adds a key or changes an entry, and when no row of
\* the highest session has an empty district every such row has its key in
\* the map; rows of sessions 116, 117 and 118 give a map of session-118
\* rows only.
C12_OnlyLatestSession ==
    pc = "loaded" =>
      LET rows == excel.rows IN
      /\ \A key \in DOMAIN scores_map.map :
             \E i \in 1..Len(rows) :
                 /\ OfMaxSession(rows, i)
                 /\ HasDistrictKey(rows, i, key)
                 /\ scores_map.map[key] =
                        ScoreEntry(rows[i][NOMINATE_COL].v, rows[i][LES_COL].v)
      /\ (\A i \in 1..Len(rows) :
              OfMaxSession(rows, i) => rows[i][DISTRICT_COL].t = "num")
         => \A i \in 1..Len(rows) :
                OfMaxSession(rows, i) => district_key(rows[i]) \in DOMAIN scores_map.map

\* C12, witness: a sheet of sessions 118, 117 and 116, in that order, whose
\* earlier rows hold the key of the session-118 row again and a key of
\* their own, has given a map with the session-118 entry alone
C12_Witness ==
    /\ pc = "loaded"
    /\ Len(excel.rows) = 3
    /\ excel.rows[1][CONGRESS_COL].v = 118
    /\ excel.rows[2][CONGRESS_COL].v = 117
    /\ excel.rows[3][CONGRESS_COL].v = 116
    /\ HasDistrictKey(excel.rows, 2, S_CA51)
    /\ HasDistrictKey(excel.rows, 3, S_ZZ9)
    /\ DOMAIN scores_map.map = {S_CA51}
    /\ scores_map.map[S_CA51] = ScoreEntry(31, 32)

=============================================================================
